---- MODULE Spec2Model ----
(***************************************************************************)
(* Model of nntrainer::Weight (nntrainer/tensor/weight.h).                 *)
(*                                                                         *)
(* A Weight holds two std::shared_ptr<Tensor> (var, grad, inherited from   *)
(* Var_Grad), a regularizer kind and constant, and two vectors: opt_vars   *)
(* (materialized optimizer tensors) and opt_vars_dim (registered shapes).  *)
(* The heap is modelled in two levels, as in the code: a Weight points to  *)
(* Tensor objects, and a Tensor object points to a data buffer (or to no   *)
(* buffer: the "empty" tensor).                                            *)
(*                                                                         *)
(* Var_Grad, Tensor and Weight::allocateOptimizerVariables are declared    *)
(* but not defined in weight.h; they are modelled from the specification   *)
(* (sections 3, 4.1, 4.2 and 7).                                           *)
(*                                                                         *)
(* Numbers: tensor elements, the regularizer constant and the learning     *)
(* rate are modelled as integers. The value returned by                    *)
(* getRegularizationLoss is kept in halves (val = 2 * loss), so that the   *)
(* factor 0.5f of the code is exact.                                       *)
(***************************************************************************)
EXTENDS Integers, Sequences, FiniteSets, TLC

\* ------------------------------------------------------------------ bounds
\* Longest sequence of registered optimizer shapes.
MaxOptVars == 2
\* Tensor elements stay within -MaxAbs .. MaxAbs.
MaxAbs == 2
\* Most sink callbacks the pipeline delivers in one run.
MaxCallbacks == 2
\* Longest source string given to data_parse_route.
MaxLen == 3

\* ------------------------------------------------------------- value sets
Slots == {1, 2}
TensorIds == 1 .. 6
BufIds == 1 .. 6
\* The Tensor objects of an external context (the owner of the tensors a
\* Weight built by Weight(v, g, n) wraps).
ExtTensors == {5, 6}
\* A shape s stands for a TensorDim with s elements.
Shapes == {1, 2}
Regularizers == {"NONE", "L2NORM", "UNKNOWN"}
RegConstants == {1, 2}
LearningRates == {0, 1, 2}
Values == (0 - MaxAbs) .. MaxAbs

VARIABLES
  weights,   \* slot -> Weight object
  live,      \* the slots that hold a constructed Weight
  tensors,   \* Tensor object id -> [dim, buf]; buf = 0: no data (empty)
  bufs,      \* buffer id -> sequence of element values
  last,      \* the last call: operation, slot, outcome, returned value
  pipe,      \* the feature-extraction pipeline of the example application
  call       \* a call of data_parse_route of the example application

wvars == <<weights, live, tensors, bufs, last>>
vars == <<weights, live, tensors, bufs, last, pipe, call>>

\* ---------------------------------------------------------------- helpers
Min(S) == CHOOSE x \in S : \A y \in S : x <= y

RECURSIVE SumSq(_)
SumSq(s) == IF s = <<>> THEN 0 ELSE Head(s) * Head(s) + SumSq(Tail(s))

\* Largest r with r * r <= n.
ISqrt(n) == CHOOSE r \in 0 .. n : r * r <= n /\ (r + 1) * (r + 1) > n

Fill(n, v) == [k \in 1 .. n |-> v]

FreeTensor == [dim |-> 0, buf |-> 0]

NoWeight ==
  [dim |-> 0, init |-> 0, need_gradient |-> FALSE, name |-> "", var |-> 0,
   grad |-> 0, regularizer |-> "UNKNOWN", regularizer_constant |-> 1,
   opt_vars |-> <<>>, opt_vars_dim |-> <<>>]

\* The program state an operation works on, with the call's outcome:
\* st is "ok" or "error", val the returned number, on the Tensor objects a
\* numeric kernel (add_i, l2norm) was invoked on.
Cur == [w |-> weights, lv |-> live, t |-> tensors, b |-> bufs,
        st |-> "ok", val |-> 0, on |-> {}]

\* Tensor objects some live Weight points to, and those of the external
\* context.
RefTensors(S) ==
  (UNION {{S.w[i].var, S.w[i].grad} : i \in S.lv} \ {0}) \cup ExtTensors

\* shared_ptr semantics: a Tensor object no Weight points to, and a buffer no
\* Tensor object points to, are destroyed.
Release(S) ==
  LET ts == [t \in TensorIds |->
               IF t \in RefTensors(S) THEN S.t[t] ELSE FreeTensor]
      used == {ts[t].buf : t \in TensorIds}
  IN  [S EXCEPT !.t = ts,
                !.b = [b \in BufIds |-> IF b \in used THEN S.b[b] ELSE <<>>]]

\* Identifiers are chosen so that equal heaps get equal names: Tensor object
\* t takes buffer t for its data when that is free, and the Weight in slot i
\* creates its own Tensor objects as 2i-1 (variable) and 2i (gradient).
FreshBuf(S, t) ==
  LET free == BufIds \ {S.t[u].buf : u \in TensorIds}
  IN  IF t \in free THEN t ELSE Min(free)
OwnVar(i) == 2 * i - 1
OwnGrad(i) == 2 * i

\* ----------------------------------------------------------------- Tensor
Tensor_empty(S, t) == S.t[t].buf = 0

Tensor_data(S, t) == S.b[S.t[t].buf]

\* Gives Tensor t a buffer of its dimension, every element v.
Tensor_allocate(S, t, v) ==
  IF ~Tensor_empty(S, t) THEN S
  ELSE LET b == FreshBuf(S, t)
       IN  [S EXCEPT !.t[t].buf = b, !.b[b] = Fill(S.t[t].dim, v)]

Tensor_deallocate(S, t) == Release([S EXCEPT !.t[t].buf = 0])

\* A new Tensor object n holding a deep copy of Tensor t.
Tensor_clone(S, t, n) ==
  LET b == FreshBuf(S, n)
  IN  [S EXCEPT !.t[n] = [dim |-> S.t[t].dim, buf |-> b],
                !.b[b] = Tensor_data(S, t)]

\* target += alpha * src, element-wise; an error when a tensor has no data or
\* the dimensions differ.
Tensor_add_i(S, target, src, alpha) ==
  IF Tensor_empty(S, target) \/ Tensor_empty(S, src)
       \/ S.t[target].dim # S.t[src].dim
  THEN [S EXCEPT !.st = "error", !.on = S.on \cup {target}]
  ELSE [S EXCEPT !.on = S.on \cup {target},
                 !.b[S.t[target].buf] =
          [k \in 1 .. S.t[target].dim |->
             Tensor_data(S, target)[k] + alpha * Tensor_data(S, src)[k]]]

\* The L2 norm (rounded down to an integer); an error when there is no data.
Tensor_l2norm(S, t) ==
  IF Tensor_empty(S, t) THEN [S EXCEPT !.st = "error", !.on = S.on \cup {t}]
  ELSE [S EXCEPT !.val = ISqrt(SumSq(Tensor_data(S, t))),
                 !.on = S.on \cup {t}]

\* --------------------------------------------------------------- Var_Grad
VarGrad_hasGradient(S, i) == S.w[i].need_gradient

VarGrad_allocateVariable(S, i) ==
  Tensor_allocate(S, S.w[i].var, S.w[i].init)

VarGrad_allocateGradient(S, i) ==
  IF S.w[i].need_gradient THEN Tensor_allocate(S, S.w[i].grad, 0) ELSE S

VarGrad_deallocateVariable(S, i) == Tensor_deallocate(S, S.w[i].var)

VarGrad_deallocateGradient(S, i) == Tensor_deallocate(S, S.w[i].grad)

\* The variable keeps its values when it is allocated and the dimension is
\* unchanged, and is deallocated otherwise; the gradient is always cleared.
VarGrad_reset(S, i, dim, init, ng) ==
  LET keep == S.w[i].dim = dim /\ ~Tensor_empty(S, S.w[i].var)
      S1 == IF keep THEN S ELSE Tensor_deallocate(S, S.w[i].var)
      S2 == Tensor_deallocate(S1, S.w[i].grad)
  IN  [S2 EXCEPT !.w[i].dim = dim, !.w[i].init = init,
                 !.w[i].need_gradient = ng,
                 !.t[S.w[i].var].dim = dim, !.t[S.w[i].grad].dim = dim]

\* Var_Grad(dim, init, ng, alloc_now, name): two fresh Tensor objects of the
\* dimension; the variable is materialized at once when alloc_now.
VarGrad_construct(S, i, dim, init, ng, alloc_now, name) ==
  LET v == OwnVar(i)
      g == OwnGrad(i)
      S1 == [S EXCEPT !.lv = S.lv \cup {i},
                      !.w[i] = [NoWeight EXCEPT !.dim = dim, !.init = init,
                                  !.need_gradient = ng, !.name = name,
                                  !.var = v, !.grad = g],
                      !.t[v] = [dim |-> dim, buf |-> 0],
                      !.t[g] = [dim |-> dim, buf |-> 0]]
  IN  IF alloc_now THEN VarGrad_allocateVariable(S1, i) ELSE S1

\* Var_Grad(v, g, n): wraps the tensors v and g of an external context. The
\* Weight gets Tensor objects of its own that share the data of v and of g;
\* it needs a gradient when g has data.
VarGrad_borrow(S, i, v, g, name) ==
  [S EXCEPT !.lv = S.lv \cup {i},
            !.w[i] = [NoWeight EXCEPT !.dim = S.t[v].dim,
                        !.need_gradient = ~Tensor_empty(S, g),
                        !.name = name,
                        !.var = OwnVar(i), !.grad = OwnGrad(i)],
            !.t[OwnVar(i)] = S.t[v],
            !.t[OwnGrad(i)] = S.t[g]]

\* swap(Var_Grad &, Var_Grad &): the two exchange every Var_Grad member.
VarGrad_swap(S, i, j) ==
  LET a == S.w[i]
      b == S.w[j]
  IN  [S EXCEPT
         !.w[i] = [a EXCEPT !.dim = b.dim, !.init = b.init,
                     !.need_gradient = b.need_gradient, !.name = b.name,
                     !.var = b.var, !.grad = b.grad],
         !.w[j] = [b EXCEPT !.dim = a.dim, !.init = a.init,
                     !.need_gradient = a.need_gradient, !.name = a.name,
                     !.var = a.var, !.grad = a.grad]]

\* ----------------------------------------------------------------- Weight
\* Weight(dim, init, reg, reg_const, ng, alloc_now, name)
Weight_construct(S, i, dim, init, reg, reg_const, ng, alloc_now, name) ==
  LET S1 == VarGrad_construct(S, i, dim, init, ng, alloc_now, name)
  IN  [S1 EXCEPT !.w[i].regularizer = reg,
                 !.w[i].regularizer_constant = reg_const]

\* Weight(v, g, n)
Weight_borrow(S, i, v, g, name) ==
  LET S1 == VarGrad_borrow(S, i, v, g, name)
  IN  [S1 EXCEPT !.w[i].regularizer = "NONE",
                 !.w[i].regularizer_constant = 1]

\* One zero tensor per registered shape, in registration order. A
\* materialized optimizer tensor is modelled by its shape.
allocateOptimizerVariables(S, i) ==
  [S EXCEPT !.w[i].opt_vars = S.w[i].opt_vars_dim]

allocateVariable(S, i) == VarGrad_allocateVariable(S, i)

\* allocateGradient without the optimizer tensors.
allocateGradient_gradientOnly(S, i) == VarGrad_allocateGradient(S, i)

allocateGradient(S, i) ==
  allocateOptimizerVariables(VarGrad_allocateGradient(S, i), i)

deallocateVariable(S, i) == VarGrad_deallocateVariable(S, i)

\* deallocateGradient that forgets the registered shapes as well.
deallocateGradient_dropsShapes(S, i) ==
  LET S1 == VarGrad_deallocateGradient(S, i)
  IN  [S1 EXCEPT !.w[i].opt_vars = <<>>, !.w[i].opt_vars_dim = <<>>]

deallocateGradient(S, i) ==
  LET S1 == VarGrad_deallocateGradient(S, i)
  IN  [S1 EXCEPT !.w[i].opt_vars = <<>>]

\* deallocate that frees the data of the two tensors, whoever shares it.
deallocate_freesData(S, i) ==
  LET bs == {S.t[S.w[i].var].buf, S.t[S.w[i].grad].buf} \ {0}
      ts == [t \in TensorIds |->
               IF S.t[t].buf \in bs THEN [S.t[t] EXCEPT !.buf = 0]
               ELSE S.t[t]]
  IN  Release([S EXCEPT !.t = ts, !.w[i].opt_vars = <<>>])

\* deallocate that releases the gradient side only.
deallocate_keepsVariable(S, i) == deallocateGradient(S, i)

deallocate(S, i) == deallocateVariable(deallocateGradient(S, i), i)

\* addOptimizerVariable that materializes the tensor at once.
addOptimizerVariable_eager(S, i, dim) ==
  [S EXCEPT !.w[i].opt_vars_dim = Append(S.w[i].opt_vars_dim, dim),
            !.w[i].opt_vars = Append(S.w[i].opt_vars, dim)]

addOptimizerVariable(S, i, dim) ==
  [S EXCEPT !.w[i].opt_vars_dim = Append(S.w[i].opt_vars_dim, dim)]

\* opt_vars[idx], unchecked: the outcomes of the call. In range (idx counts
\* from 0) it returns the tensor at that index (val: its shape). Out of
\* range the behaviour is undefined: the call faults, or it returns a
\* reference to memory that holds no optimizer tensor (val = 0).
getOptimizerVariableRef(S, i, idx) ==
  IF idx < Len(S.w[i].opt_vars)
  THEN {[S EXCEPT !.val = S.w[i].opt_vars[idx + 1]]}
  ELSE {[S EXCEPT !.st = "error"], [S EXCEPT !.val = 0]}

\* clearOptimizerVariables that keeps the registered shapes.
clearOptimizerVariables_tensorsOnly(S, i) ==
  [S EXCEPT !.w[i].opt_vars = <<>>]

clearOptimizerVariables(S, i) ==
  [S EXCEPT !.w[i].opt_vars = <<>>, !.w[i].opt_vars_dim = <<>>]

reset(S, i, dim, init, reg, reg_const, ng) ==
  LET S1 == [S EXCEPT !.w[i].regularizer = reg,
                      !.w[i].regularizer_constant = reg_const]
  IN  VarGrad_reset(S1, i, dim, init, ng)

\* Weight w(*this): the defaulted copy constructor copies every member, the
\* two shared pointers included (j points to i's Tensor objects).
Weight_copy(S, i, j) == [S EXCEPT !.lv = S.lv \cup {j}, !.w[j] = S.w[i]]

\* clone that copies the Weight and deep-copies nothing.
clone_shallow(S, i, j) == Release(Weight_copy(S, i, j))

\* clone that leaves the optimizer state behind.
clone_withoutOptimizerState(S, i, j) ==
  LET S0 == Weight_copy(S, i, j)
      S1 == IF ~Tensor_empty(S0, S.w[i].var)
            THEN LET n == OwnVar(j)
                 IN  [Tensor_clone(S0, S.w[i].var, n) EXCEPT !.w[j].var = n]
            ELSE S0
      S2 == IF ~Tensor_empty(S1, S.w[i].grad)
            THEN LET n == OwnGrad(j)
                 IN  [Tensor_clone(S1, S.w[i].grad, n) EXCEPT !.w[j].grad = n]
            ELSE S1
  IN  Release([S2 EXCEPT !.w[j].opt_vars = <<>>, !.w[j].opt_vars_dim = <<>>])

\* Slot j receives i.clone().
clone(S, i, j) ==
  LET S0 == Weight_copy(S, i, j)
      S1 == IF ~Tensor_empty(S0, S.w[i].var)
            THEN LET n == OwnVar(j)
                 IN  [Tensor_clone(S0, S.w[i].var, n) EXCEPT !.w[j].var = n]
            ELSE S0
      S2 == IF ~Tensor_empty(S1, S.w[i].grad)
            THEN LET n == OwnGrad(j)
                 IN  [Tensor_clone(S1, S.w[i].grad, n) EXCEPT !.w[j].grad = n]
            ELSE S1
  IN  Release(S2)

\* swap(lhs, rhs): the Var_Grad parts and the regularizer kinds are
\* exchanged.
swap(S, i, j) ==
  LET S1 == VarGrad_swap(S, i, j)
  IN  [S1 EXCEPT !.w[i].regularizer = S.w[j].regularizer,
                 !.w[j].regularizer = S.w[i].regularizer]

\* ~Weight(): the slot is empty again.
Weight_destroy(S, j) ==
  Release([S EXCEPT !.lv = S.lv \ {j}, !.w[j] = NoWeight])

isWeightRegularizerL2Norm(S, i) == S.w[i].regularizer = "L2NORM"

\* getRegularizationLoss that does not look at the regularizer kind.
getRegularizationLoss_anyRegularizer(S, i) ==
  IF VarGrad_hasGradient(S, i)
  THEN LET N == Tensor_l2norm(S, S.w[i].var)
       IN  [N EXCEPT !.val = S.w[i].regularizer_constant * N.val]
  ELSE [S EXCEPT !.val = 0]

\* val is twice the returned loss.
getRegularizationLoss(S, i) ==
  IF VarGrad_hasGradient(S, i) /\ isWeightRegularizerL2Norm(S, i)
  THEN LET N == Tensor_l2norm(S, S.w[i].var)
       IN  [N EXCEPT !.val = S.w[i].regularizer_constant * N.val]
  ELSE [S EXCEPT !.val = 0]

\* calcRegularizationGradient that does not look at the regularizer kind.
calcRegularizationGradient_anyRegularizer(S, i) ==
  Tensor_add_i(S, S.w[i].grad, S.w[i].var, S.w[i].regularizer_constant)

calcRegularizationGradient(S, i) ==
  IF isWeightRegularizerL2Norm(S, i)
  THEN Tensor_add_i(S, S.w[i].grad, S.w[i].var, S.w[i].regularizer_constant)
  ELSE S

\* applyGradient that steps up the gradient.
applyGradient_ascent(S, i, lr) ==
  Tensor_add_i(S, S.w[i].var, S.w[i].grad, lr)

applyGradient(S, i, lr) ==
  Tensor_add_i(S, S.w[i].var, S.w[i].grad, 0 - lr)

\* getGradientRef(): the caller (backward propagation, a test) writes the
\* values g into the gradient; nothing to write to when it is empty.
VarGrad_setGradient(S, i, g) ==
  IF Tensor_empty(S, S.w[i].grad) THEN S
  ELSE [S EXCEPT !.b[S.t[S.w[i].grad].buf] = g]

\* ------------------------------------------------------------ transitions
GradAllocatedNow(i) == ~Tensor_empty(Cur, weights[i].grad)

InRange(S) ==
  \A b \in BufIds : \A k \in 1 .. Len(S.b[b]) : S.b[b][k] \in Values

\* What a call remembers of the state before it: deallocateGradient (with
\* `set`) and clearOptimizerVariables record the registered and the
\* materialized optimizer shapes they found, and an allocateGradient that
\* directly follows one of them on the same Weight keeps them.
\* `after` names the call that directly preceded on the same Weight, for
\* the calls whose effect after that call is looked at.
NoPre == [set |-> FALSE, dims |-> <<>>, vars |-> <<>>, after |-> ""]

After(ops, i) == IF last.w = i /\ last.op \in ops THEN last.op ELSE ""

NoCall == [op |-> "construct", w |-> 1, arg |-> 0, st |-> "ok", val |-> 0,
           on |-> {}, pre |-> NoPre]

\* The pipeline of data.c, not set up: no thread of it runs.
NoPipe ==
  [lock_ok |-> TRUE, owner |-> "none", rpc |-> "off", cpc |-> "idle",
   status |-> "none", pipeline |-> "null", sink |-> "null",
   started |-> FALSE, delivered |-> 0, signals |-> 0, finished |-> 0,
   woken_by |-> "none", rpath |-> "none", cpath |-> "none",
   constructs |-> 0, destroys |-> 0, unregisters |-> 0]

\* No call of data_parse_route is going on.
NoParse ==
  [pc |-> "off", source |-> <<>>, route_null |-> FALSE,
   data_null |-> FALSE, dst |-> <<>>, i |-> 0, find_data |-> FALSE,
   route_set |-> FALSE, route |-> 0, data_set |-> FALSE, data |-> 0,
   ret |-> "none"]

\* The call `op` on slot i, with the number `arg`, took the program to S.
StepArg(S, op, i, arg, pre) ==
  /\ InRange(S)
  /\ weights' = S.w
  /\ live' = S.lv
  /\ tensors' = S.t
  /\ bufs' = S.b
  /\ last' = [op |-> op, w |-> i, arg |-> arg, st |-> S.st, val |-> S.val,
              on |-> S.on, pre |-> pre]
  /\ UNCHANGED <<pipe, call>>

Step(S, op, i, pre) == StepArg(S, op, i, 0, pre)

Boot(S) ==
  /\ weights = S.w
  /\ live = S.lv
  /\ tensors = S.t
  /\ bufs = S.b
  /\ last = NoCall
  /\ pipe = NoPipe
  /\ call = NoParse

Blank == [w |-> [i \in Slots |-> NoWeight], lv |-> {},
          t |-> [t \in TensorIds |-> FreeTensor],
          b |-> [b \in BufIds |-> <<>>], st |-> "ok", val |-> 0, on |-> {}]

DoAllocateVariable(i) ==
  i \in live /\ Step(allocateVariable(Cur, i), "allocateVariable", i, NoPre)

DoAllocateGradient(i) ==
  /\ i \in live
  /\ Step(allocateGradient(Cur, i), "allocateGradient", i,
          [(IF After({"deallocateGradient", "clearOptimizerVariables"}, i)
                # ""
            THEN last.pre ELSE NoPre)
             EXCEPT !.after = After({"clearOptimizerVariables"}, i)])

DoDeallocateVariable(i) ==
  i \in live /\ Step(deallocateVariable(Cur, i), "deallocateVariable", i, NoPre)

DoDeallocateGradient(i) ==
  /\ i \in live
  /\ Step(deallocateGradient(Cur, i), "deallocateGradient", i,
          [NoPre EXCEPT !.set = TRUE, !.dims = weights[i].opt_vars_dim,
                        !.vars = weights[i].opt_vars])

DoDeallocate(i) ==
  /\ i \in live
  /\ Step(deallocate(Cur, i), "deallocate", i,
          [NoPre EXCEPT !.after = After({"deallocate"}, i)])

DoAddOptimizerVariable(i) ==
  /\ i \in live
  /\ Len(weights[i].opt_vars_dim) < MaxOptVars
  /\ \E d \in Shapes :
       Step(addOptimizerVariable(Cur, i, d), "addOptimizerVariable", i, NoPre)

DoGetOptimizerVariableRef(i) ==
  /\ i \in live
  /\ \E idx \in 0 .. MaxOptVars :
       \E R \in getOptimizerVariableRef(Cur, i, idx) :
         StepArg(R, "getOptimizerVariableRef", i, idx, NoPre)

DoClearOptimizerVariables(i) ==
  /\ i \in live
  /\ Step(clearOptimizerVariables(Cur, i), "clearOptimizerVariables", i,
          [NoPre EXCEPT !.dims = weights[i].opt_vars_dim,
                        !.vars = weights[i].opt_vars])

DoReset(i) ==
  /\ i \in live
  /\ \E d \in Shapes, reg \in Regularizers, c \in RegConstants,
        ng \in BOOLEAN :
       Step(reset(Cur, i, d, 0, reg, c, ng), "reset", i, NoPre)

DoClone(i, j) ==
  /\ i \in live
  /\ j \notin live
  /\ Step(clone(Cur, i, j), "clone", j, NoPre)

\* The gradients a caller writes: every element v, or v in the first
\* element and 0 elsewhere.
Gradients(n) ==
  {Fill(n, v) : v \in Values}
    \cup {[k \in 1 .. n |-> IF k = 1 THEN v ELSE 0] : v \in Values}

DoSetGradient(i) ==
  /\ i \in live
  /\ GradAllocatedNow(i)
  /\ \E g \in Gradients(weights[i].dim) :
       Step(VarGrad_setGradient(Cur, i, g), "setGradient", i, NoPre)

DoApplyGradient(i) ==
  /\ i \in live
  /\ \E lr \in LearningRates :
       StepArg(applyGradient(Cur, i, lr), "applyGradient", i, lr, NoPre)

DoCalcRegularizationGradient(i) ==
  /\ i \in live
  /\ Step(calcRegularizationGradient(Cur, i), "calcRegularizationGradient",
          i, NoPre)

DoGetRegularizationLoss(i) ==
  /\ i \in live
  /\ Step(getRegularizationLoss(Cur, i), "getRegularizationLoss", i, NoPre)

DoSwap(i, j) ==
  /\ i \in live
  /\ j \in live
  /\ Step(swap(Cur, i, j), "swap", i, NoPre)

DoDestroy(j) ==
  j \in live /\ Step(Weight_destroy(Cur, j), "destroy", j, NoPre)

\* ---------------------------------------------------------- specification
\* One Weight under the calls of its owner; the Weight returned by clone() is
\* looked at and destroyed before the owner's next call.
Init ==
  \E d \in Shapes, reg \in Regularizers, c \in RegConstants, ng \in BOOLEAN,
     now \in BOOLEAN :
    Boot(Weight_construct(Blank, 1, d, 0, reg, c, ng, now, "weight"))

\* No Weight returned by clone() is outstanding.
Owner == live = {1}

Next ==
  \/ Owner /\ DoAllocateVariable(1)
  \/ Owner /\ DoAllocateGradient(1)
  \/ Owner /\ DoDeallocateVariable(1)
  \/ Owner /\ DoDeallocateGradient(1)
  \/ Owner /\ DoDeallocate(1)
  \/ Owner /\ DoAddOptimizerVariable(1)
  \/ Owner /\ DoClearOptimizerVariables(1)
  \/ Owner /\ DoReset(1)
  \/ Owner /\ DoGetOptimizerVariableRef(1)
  \/ DoClone(1, 2)
  \/ DoDestroy(2)

Spec == Init /\ [][Next]_vars

\* The storage of one Weight that needs a gradient and starts Empty, with
\* its optimizer shapes registered, under the five allocation calls.
RECURSIVE Register(_, _, _)
Register(S, i, dims) ==
  IF dims = <<>> THEN S
  ELSE Register(addOptimizerVariable(S, i, Head(dims)), i, Tail(dims))

ShapeSeqs == UNION {[1 .. n -> Shapes] : n \in 0 .. MaxOptVars}

InitStorage ==
  \E d \in Shapes, reg \in Regularizers, c \in RegConstants,
     dims \in ShapeSeqs :
    Boot(Register(Weight_construct(Blank, 1, d, 0, reg, c, TRUE, FALSE,
                                   "weight"),
                  1, dims))

NextStorage ==
  \/ DoAllocateVariable(1)
  \/ DoAllocateGradient(1)
  \/ DoDeallocateVariable(1)
  \/ DoDeallocateGradient(1)
  \/ DoDeallocate(1)

SpecStorage == InitStorage /\ [][NextStorage]_vars

\* ------------------------------------------------------- state functions
\* What a call leaves alone.
SameWeights == weights' = weights /\ live' = live
SameData == tensors' = tensors /\ bufs' = bufs

VarAllocated(S, i) == ~Tensor_empty(S, S.w[i].var)
GradAllocated(S, i) == ~Tensor_empty(S, S.w[i].grad)

\* The variable and the gradient of Weight i as values: allocated or not,
\* and the elements.
VarValue(S, i) ==
  IF VarAllocated(S, i) THEN <<TRUE, Tensor_data(S, S.w[i].var)>>
  ELSE <<FALSE, <<>>>>
GradValue(S, i) ==
  IF GradAllocated(S, i) THEN <<TRUE, Tensor_data(S, S.w[i].grad)>>
  ELSE <<FALSE, <<>>>>

OptNone(S, i) == S.w[i].opt_vars = <<>>
OptMaterialized(S, i) == S.w[i].opt_vars = S.w[i].opt_vars_dim

StEmpty(S, i) == ~VarAllocated(S, i) /\ ~GradAllocated(S, i) /\ OptNone(S, i)
StVariableAllocated(S, i) == VarAllocated(S, i) /\ ~GradAllocated(S, i) /\ OptNone(S, i)
StFullyAllocated(S, i) ==
  VarAllocated(S, i) /\ GradAllocated(S, i) /\ OptMaterialized(S, i)
StGradientAllocated(S, i) ==
  ~VarAllocated(S, i) /\ GradAllocated(S, i) /\ OptMaterialized(S, i)

\* ------------------------------------------------------------------ C1
\* C1 as stated: the storage is always Empty, VariableAllocated or
\* FullyAllocated, so the gradient and the optimizer tensors are never
\* materialized while the variable is empty.
C1_ThreeStates ==
  StEmpty(Cur, 1) \/ StVariableAllocated(Cur, 1) \/ StFullyAllocated(Cur, 1)

C1_Moves ==
  /\ last'.op = "allocateVariable" =>
       /\ VarAllocated(Cur', 1)
       /\ GradValue(Cur', 1) = GradValue(Cur, 1)
       /\ weights'[1].opt_vars = weights[1].opt_vars
  /\ last'.op = "deallocateVariable" =>
       /\ ~VarAllocated(Cur', 1)
       /\ GradValue(Cur', 1) = GradValue(Cur, 1)
       /\ weights'[1].opt_vars = weights[1].opt_vars
  /\ last'.op = "allocateGradient" =>
       /\ GradAllocated(Cur', 1)
       /\ OptMaterialized(Cur', 1)
       /\ VarValue(Cur', 1) = VarValue(Cur, 1)
  /\ last'.op = "deallocateGradient" =>
       /\ ~GradAllocated(Cur', 1)
       /\ OptNone(Cur', 1)
       /\ VarValue(Cur', 1) = VarValue(Cur, 1)
  /\ last'.op = "deallocate" => StEmpty(Cur', 1)
  /\ weights'[1].opt_vars_dim = weights[1].opt_vars_dim

\* C1 (amended): under the five allocation calls on a Weight that needs a
\* gradient and starts Empty, the storage is always in one of four states:
\* Empty, VariableAllocated, FullyAllocated, or GradientAllocated (gradient
\* and optimizer tensors materialized, variable empty). allocateVariable and
\* deallocateVariable set and clear the variable and nothing else;
\* allocateGradient and deallocateGradient set and clear the gradient
\* together with the optimizer tensors and leave the variable alone;
\* deallocate leads to Empty. The optimizer tensors are materialized exactly
\* when the gradient is allocated.
C1_StorageStates ==
  /\ [](\/ StEmpty(Cur, 1)
        \/ StVariableAllocated(Cur, 1)
        \/ StFullyAllocated(Cur, 1)
        \/ StGradientAllocated(Cur, 1))
  /\ [][C1_Moves]_vars

C1_Witness ==
  /\ last.op = "allocateGradient"
  /\ StGradientAllocated(Cur, 1)
  /\ Len(weights[1].opt_vars) = 2

\* ------------------------------------------------------------------ C2
\* C2: in every reachable state the materialized optimizer tensors of a
\* Weight are either none, or as many as the registered shapes, the tensor
\* at each index having the shape registered at that index.
C2_OptVarsAligned ==
  \A i \in live : OptNone(Cur, i) \/ OptMaterialized(Cur, i)

\* ------------------------------------------------------------------ C3
C3_Step ==
  LET i == last'.w IN
  /\ last'.op = "addOptimizerVariable" =>
       /\ \E d \in Shapes :
            weights'[i].opt_vars_dim = Append(weights[i].opt_vars_dim, d)
       /\ weights'[i].opt_vars = weights[i].opt_vars
       /\ tensors' = tensors
       /\ bufs' = bufs
  /\ last'.op = "allocateGradient" =>
       /\ weights'[i].opt_vars_dim = weights[i].opt_vars_dim
       /\ Len(weights'[i].opt_vars) = Len(weights[i].opt_vars_dim)
       /\ \A k \in 1 .. Len(weights[i].opt_vars_dim) :
            weights'[i].opt_vars[k] = weights[i].opt_vars_dim[k]

\* C3: addOptimizerVariable appends its shape to the registered shapes and
\* materializes nothing; allocateGradient on a Weight with registered shapes
\* s1..sn materializes exactly n optimizer tensors, the k-th of shape sk.
C3_RegisterThenAllocate == [][C3_Step]_vars

C3_Witness ==
  /\ last.op = "allocateGradient"
  /\ Len(weights[1].opt_vars) = 2
  /\ weights[1].opt_vars[1] # weights[1].opt_vars[2]

C10_Step ==
  LET i == last'.w IN
  /\ last'.op = "deallocateGradient" =>
       /\ ~GradAllocated(Cur', i)
       /\ weights'[i].opt_vars = <<>>
       /\ weights'[i].opt_vars_dim = weights[i].opt_vars_dim
       /\ VarValue(Cur', i) = VarValue(Cur, i)
  /\ (last'.op = "allocateGradient" /\ last'.pre.set) =>
       /\ weights'[i].opt_vars = last'.pre.dims
       /\ (last'.pre.vars = last'.pre.dims =>
             weights'[i].opt_vars = last'.pre.vars)

\* C10: deallocateGradient empties the gradient and the materialized
\* optimizer tensors and leaves the registered shapes and the variable
\* unchanged; an allocateGradient that directly follows it materializes one
\* optimizer tensor per shape registered before the deallocation, in the
\* same order (the tensors materialized before, when all shapes were).
C10_DeallocateGradientKeepsShapes == [][C10_Step]_vars

C10_Witness ==
  /\ last.op = "allocateGradient"
  /\ last.pre.set
  /\ Len(last.pre.vars) = 2
  /\ weights[1].opt_vars = last.pre.vars
  /\ VarAllocated(Cur, 1)
  /\ GradAllocated(Cur, 1)

\* ------------------------------------------------------------------ C11
C11_Step ==
  last'.op = "deallocate" =>
    LET i == last'.w IN
    /\ last'.st = "ok"
    /\ StEmpty(Cur', i)
    /\ (StEmpty(Cur, i) \/ last'.pre.after = "deallocate") =>
         (SameWeights /\ SameData)

\* C11: deallocate succeeds from every storage state and leaves the Weight
\* with an empty variable, an empty gradient and no materialized optimizer
\* tensor; it is idempotent: a second deallocate, or a deallocate on an
\* Empty Weight, succeeds and changes nothing.
C11_DeallocateIdempotent ==
  /\ [](\A i \in live :
         deallocate(deallocate(Cur, i), i) = deallocate(Cur, i))
  /\ [][C11_Step]_vars

C11_Witness ==
  /\ last.op = "deallocate"
  /\ last.pre.after = "deallocate"
  /\ StEmpty(Cur, 1)
  /\ Len(weights[1].opt_vars_dim) = 2

\* ------------------------------------------------------------------ C12
\* C12: reset clears the optimizer state: after reset the Weight holds no
\* optimizer tensor (reset materializes none, so none that was materialized
\* before is still held).
C12_ResetClearsOptimizerState ==
  [][last'.op = "reset" => weights'[last'.w].opt_vars = <<>>]_vars

\* ------------------------------------------------------------------ C13
\* C13: on a Weight that needs no gradient, allocateGradient is a no-op: it
\* succeeds, the gradient stays empty and no optimizer tensor is
\* materialized, whatever shapes are registered.
C13_NoGradientAllocateNoOp ==
  [][(last'.op = "allocateGradient" /\ ~weights[last'.w].need_gradient) =>
       /\ last'.st = "ok"
       /\ ~GradAllocated(Cur', last'.w)
       /\ SameWeights
       /\ SameData]_vars

\* ------------------------------------------------------------------ C14
\* C14: getOptimizerVariableRef(index) with index not smaller than the
\* number of materialized optimizer tensors fails with an error and returns
\* no tensor reference (also when shapes are registered and not yet
\* materialized, after deallocateGradient and after
\* clearOptimizerVariables).
C14_OutOfRangeFails ==
  [][(last'.op = "getOptimizerVariableRef"
        /\ last'.arg >= Len(weights[last'.w].opt_vars)) =>
       last'.st = "error"]_vars

\* ------------------------------------------------------------------ C16
C16_Step ==
  LET i == last'.w IN
  /\ last'.op = "clearOptimizerVariables" =>
       /\ last'.st = "ok"
       /\ weights'[i].opt_vars_dim = <<>>
       /\ weights'[i].opt_vars = <<>>
       /\ weights' = [weights EXCEPT ![i].opt_vars_dim = <<>>,
                                     ![i].opt_vars = <<>>]
       /\ VarValue(Cur', i) = VarValue(Cur, i)
       /\ GradValue(Cur', i) = GradValue(Cur, i)
       /\ SameData
  /\ (last'.op = "allocateGradient"
        /\ last'.pre.after = "clearOptimizerVariables") =>
       /\ weights'[i].opt_vars = <<>>
       /\ weights'[i].opt_vars_dim = <<>>

\* C16: clearOptimizerVariables empties the registered shapes and the
\* materialized optimizer tensors, from every state, and leaves variable,
\* gradient and regularizer fields unchanged; an allocateGradient that
\* directly follows materializes no optimizer tensor.
C16_ClearOptimizerVariables == [][C16_Step]_vars

C16_Witness ==
  /\ last.op = "allocateGradient"
  /\ last.pre.after = "clearOptimizerVariables"
  /\ Len(last.pre.vars) = 2
  /\ Len(last.pre.dims) = 2
  /\ GradAllocated(Cur, 1)
  /\ weights[1].opt_vars = <<>>

\* ----------------------------------------------- borrowed specification
\* An external context owns a variable tensor with data and a gradient
\* tensor with or without data; one Weight wraps them with Weight(v, g, n)
\* and is deallocated, re-allocated and destroyed.
ExtVar == 5
ExtGrad == 6

External(d, vv, gv) ==
  [Blank EXCEPT !.t[ExtVar] = [dim |-> d, buf |-> ExtVar],
                !.b[ExtVar] = vv,
                !.t[ExtGrad] = [dim |-> d,
                                buf |-> IF gv = <<>> THEN 0 ELSE ExtGrad],
                !.b[ExtGrad] = gv]

InitBorrowed ==
  \E d \in Shapes :
    \E vv \in Gradients(d), gv \in Gradients(d) \cup {<<>>} :
      Boot(Weight_borrow(External(d, vv, gv), 1, ExtVar, ExtGrad, "weight"))

NextBorrowed ==
  \/ DoDeallocateGradient(1)
  \/ DoDeallocateVariable(1)
  \/ DoDeallocate(1)
  \/ DoAllocateVariable(1)
  \/ DoAllocateGradient(1)
  \/ DoDestroy(1)

SpecBorrowed == InitBorrowed /\ [][NextBorrowed]_vars

\* ------------------------------------------------------------------ C15
\* A tensor of the external context as a value.
ExtValue(S, t) ==
  IF Tensor_empty(S, t) THEN <<FALSE, <<>>>> ELSE <<TRUE, Tensor_data(S, t)>>

\* C15: a Weight built by Weight(v, g, name) never deallocates the tensors
\* it wraps: no deallocateGradient, deallocateVariable or deallocate (nor an
\* allocation, nor the destruction of the Weight) changes the external
\* context's variable or gradient tensor, which stay allocated with their
\* contents.
C15_BorrowedNeverDeallocated ==
  /\ [](~Tensor_empty(Cur, ExtVar))
  /\ [][/\ ExtValue(Cur', ExtVar) = ExtValue(Cur, ExtVar)
        /\ ExtValue(Cur', ExtGrad) = ExtValue(Cur, ExtGrad)]_vars

C15_Witness ==
  /\ last.op = "deallocate"
  /\ StEmpty(Cur, 1)
  /\ weights[1].need_gradient
  /\ ExtValue(Cur, ExtVar) = <<TRUE, <<1, 0>>>>
  /\ ExtValue(Cur, ExtGrad) = <<TRUE, <<2, 2>>>>

\* --------------------------------------------------- swap specification
\* Two Weights that need a gradient, "lhs" of one element filled with zeros
\* and with optimizer shapes registered, "rhs" of two elements filled with
\* ones, under allocation calls and swap(lhs, rhs).
InitSwap ==
  \E reg1 \in Regularizers, reg2 \in Regularizers, c1 \in RegConstants,
     c2 \in RegConstants, dims \in ShapeSeqs :
    Boot(Weight_construct(
           Register(Weight_construct(Blank, 1, 1, 0, reg1, c1, TRUE, FALSE,
                                     "lhs"),
                    1, dims),
           2, 2, 1, reg2, c2, TRUE, FALSE, "rhs"))

NextSwap ==
  \/ DoSwap(1, 2)
  \/ \E i \in Slots : DoAllocateVariable(i)
  \/ \E i \in Slots : DoAllocateGradient(i)
  \/ \E i \in Slots : DoDeallocate(i)

SpecSwap == InitSwap /\ [][NextSwap]_vars

\* ------------------------------------------------------------------ C17
\* What swap is claimed to exchange: variable, gradient, name, regularizer
\* kind, regularizer constant and optimizer state.
C17_Held(S, i) ==
  [var |-> VarValue(S, i), grad |-> GradValue(S, i), name |-> S.w[i].name,
   regularizer |-> S.w[i].regularizer,
   regularizer_constant |-> S.w[i].regularizer_constant,
   opt_vars |-> S.w[i].opt_vars, opt_vars_dim |-> S.w[i].opt_vars_dim]

\* C17: after swap(lhs, rhs), lhs holds the former variable, gradient, name,
\* regularizer kind, regularizer constant and optimizer state (registered
\* shapes and materialized tensors) of rhs, and rhs those of lhs.
C17_SwapExchanges ==
  [][last'.op = "swap" =>
       /\ C17_Held(Cur', 1) = C17_Held(Cur, 2)
       /\ C17_Held(Cur', 2) = C17_Held(Cur, 1)]_vars

\* ------------------------------------------------ numeric specification
\* One Weight of two elements under the calls of a training step. The
\* initializer fills the variable with zeros or with ones.
NumDims == {2}
Initializers == {0, 1}

InitNum ==
  \E d \in NumDims, init \in Initializers, reg \in Regularizers,
     c \in RegConstants, ng \in BOOLEAN, now \in BOOLEAN :
    Boot(Weight_construct(Blank, 1, d, init, reg, c, ng, now, "weight"))

NextNum ==
  \/ DoAllocateVariable(1)
  \/ DoAllocateGradient(1)
  \/ DoDeallocate(1)
  \/ DoSetGradient(1)
  \/ DoApplyGradient(1)
  \/ DoCalcRegularizationGradient(1)
  \/ DoGetRegularizationLoss(1)

SpecNum == InitNum /\ [][NextNum]_vars

\* ------------------------------------------------------------------ C6
\* C6: on a Weight that needs no gradient, calcRegularizationGradient is a
\* no-op for every regularizer kind: it succeeds, changes neither the
\* variable nor the gradient, and invokes no tensor kernel on the (empty)
\* gradient.
C6_NoGradientNoOp ==
  [][(last'.op = "calcRegularizationGradient"
        /\ ~weights[last'.w].need_gradient) =>
       /\ last'.st = "ok"
       /\ weights[last'.w].grad \notin last'.on
       /\ SameWeights
       /\ SameData]_vars

\* ------------------------------------------------------------------ C7
\* The loss the claim names, doubled: 0 without gradient or without L2NORM,
\* else the constant times the L2 norm of the variable (of no elements when
\* the variable is empty).
C7_Loss2(S, i) ==
  IF ~S.w[i].need_gradient \/ S.w[i].regularizer # "L2NORM" THEN 0
  ELSE S.w[i].regularizer_constant * ISqrt(SumSq(VarValue(S, i)[2]))

\* C7 as stated: getRegularizationLoss returns 0 when the Weight needs no
\* gradient or its regularizer is not L2NORM, and regularizer_constant * 0.5
\* * L2norm(variable) otherwise, in every state, and changes nothing.
C7_LossAlways ==
  [][last'.op = "getRegularizationLoss" =>
       /\ last'.st = "ok"
       /\ last'.val = C7_Loss2(Cur, last'.w)
       /\ SameWeights
       /\ SameData]_vars

\* C7 (amended): getRegularizationLoss returns 0 when the Weight needs no
\* gradient or its regularizer is not L2NORM; otherwise, when the variable
\* is allocated, it returns regularizer_constant * 0.5 * L2norm(variable).
\* In every case it leaves variable, gradient, regularizer fields and
\* optimizer state unchanged.
C7_LossWhenAllocated ==
  [][last'.op = "getRegularizationLoss" =>
       LET i == last'.w IN
       /\ SameWeights
       /\ SameData
       /\ (~weights[i].need_gradient \/ weights[i].regularizer # "L2NORM") =>
            (last'.st = "ok" /\ last'.val = 0)
       /\ (weights[i].need_gradient /\ weights[i].regularizer = "L2NORM"
             /\ VarAllocated(Cur, i)) =>
            (last'.st = "ok" /\ last'.val = C7_Loss2(Cur, i))]_vars

C7_Witness ==
  /\ last.op = "getRegularizationLoss"
  /\ last.st = "ok"
  /\ last.val = 2
  /\ weights[1].regularizer_constant = 2
  /\ VarValue(Cur, 1) = <<TRUE, <<1, 1>>>>

\* ------------------------------------------------------------------ C8
\* C8: on a fully allocated Weight, calcRegularizationGradient with
\* regularizer L2NORM, constant c and variable V adds c * V to the gradient
\* element by element and leaves V unchanged; with NONE or UNKNOWN it
\* changes nothing, whatever the constant.
C8_RegularizationGradient ==
  [][(last'.op = "calcRegularizationGradient"
        /\ VarAllocated(Cur, last'.w) /\ GradAllocated(Cur, last'.w)) =>
       LET i == last'.w
           c == weights[i].regularizer_constant
           V == VarValue(Cur, i)[2]
           G == GradValue(Cur, i)[2]
       IN
       /\ last'.st = "ok"
       /\ SameWeights
       /\ VarValue(Cur', i) = VarValue(Cur, i)
       /\ IF weights[i].regularizer = "L2NORM"
          THEN GradValue(Cur', i) =
                 <<TRUE, [k \in 1 .. Len(G) |-> G[k] + c * V[k]]>>
          ELSE SameData]_vars

C8_Witness ==
  /\ last.op = "calcRegularizationGradient"
  /\ weights[1].regularizer = "L2NORM"
  /\ weights[1].regularizer_constant = 2
  /\ VarValue(Cur, 1) = <<TRUE, <<1, 1>>>>
  /\ GradValue(Cur, 1) = <<TRUE, <<1, 2>>>>

\* ------------------------------------------------------------------ C9
\* C9: applyGradient(lr) on a fully allocated Weight sets every element of
\* the variable to variable + (-lr) * gradient and leaves the gradient, the
\* regularizer fields and the optimizer state unchanged; with a zero
\* variable and an all-ones gradient every element becomes -lr.
C9_ApplyGradient ==
  [][(last'.op = "applyGradient"
        /\ VarAllocated(Cur, last'.w) /\ GradAllocated(Cur, last'.w)) =>
       LET i == last'.w
           lr == last'.arg
           V == VarValue(Cur, i)[2]
           G == GradValue(Cur, i)[2]
       IN
       /\ last'.st = "ok"
       /\ SameWeights
       /\ GradValue(Cur', i) = GradValue(Cur, i)
       /\ VarValue(Cur', i) =
            <<TRUE, [k \in 1 .. Len(V) |-> V[k] + (0 - lr) * G[k]]>>
       /\ (V = Fill(Len(V), 0) /\ G = Fill(Len(G), 1)) =>
            VarValue(Cur', i)[2] = Fill(Len(V), 0 - lr)]_vars

C9_Witness ==
  /\ last.op = "applyGradient"
  /\ last.arg = 1
  /\ VarValue(Cur, 1) = <<TRUE, <<-1, -1>>>>
  /\ GradValue(Cur, 1) = <<TRUE, <<1, 1>>>>

\* -------------------------------------------------- clone specification
\* A Weight of one element, filled with ones, that needs a gradient and is
\* L2NORM-regularized (so that calcRegularizationGradient writes), and the
\* Weight its clone() returned, each under the calls of a training step.
CloneDims == {1}

InitClone ==
  \E d \in CloneDims, c \in RegConstants :
    Boot(Weight_construct(Blank, 1, d, 1, "L2NORM", c, TRUE, FALSE, "weight"))

NextClone ==
  \/ DoClone(1, 2)
  \/ DoDestroy(2)
  \/ \E i \in Slots : DoAllocateVariable(i)
  \/ \E i \in Slots : DoAllocateGradient(i)
  \/ \E i \in Slots : DoSetGradient(i)
  \/ \E i \in Slots : DoApplyGradient(i)
  \/ \E i \in Slots : DoCalcRegularizationGradient(i)
  \/ \E i \in Slots : DoDeallocate(i)

SpecClone == InitClone /\ [][NextClone]_vars

\* ------------------------------------------------------------------ C5
\* The two Weights share no Tensor object and no data buffer.
Separate(S) ==
  LET T1 == {S.w[1].var, S.w[1].grad}
      T2 == {S.w[2].var, S.w[2].grad}
  IN  /\ T1 \cap T2 = {}
      /\ {S.t[t].buf : t \in T1} \cap {S.t[t].buf : t \in T2} \subseteq {0}

C5_Step ==
  /\ (last'.op = "clone" /\ VarAllocated(Cur, 1) /\ GradAllocated(Cur, 1)) =>
       /\ VarValue(Cur', 2) = VarValue(Cur, 1)
       /\ GradValue(Cur', 2) = GradValue(Cur, 1)
       /\ VarValue(Cur', 1) = VarValue(Cur, 1)
       /\ GradValue(Cur', 1) = GradValue(Cur, 1)
       /\ Separate(Cur')
  /\ (live = Slots /\ Separate(Cur)) =>
       LET o == 3 - last'.w IN
       /\ VarValue(Cur', o) = VarValue(Cur, o)
       /\ GradValue(Cur', o) = GradValue(Cur, o)
       /\ live' = Slots => Separate(Cur')

\* C5: clone() of a Weight whose variable and gradient are allocated returns
\* a Weight whose variable and gradient hold the same values in Tensor
\* objects and buffers of their own; from then on no call on one of the two
\* Weights (applyGradient, calcRegularizationGradient, deallocate, a write
\* of the gradient, an allocation, the destruction of the clone) changes
\* the variable or the gradient of the other.
C5_CloneIndependent == [][C5_Step]_vars

C5_Witness ==
  /\ live = Slots
  /\ Separate(Cur)
  /\ last.op = "applyGradient"
  /\ last.w = 2
  /\ VarValue(Cur, 1) = <<TRUE, <<1>>>>
  /\ VarValue(Cur, 2) = <<TRUE, <<-1>>>>
  /\ GradValue(Cur, 1) = <<TRUE, <<2>>>>
  /\ GradValue(Cur, 2) = <<TRUE, <<2>>>>

\* ============================================================ pipeline
\* Applications/Tizen_native/CustomShortcut/src/data.c: _run_nnpipeline (the
\* runner) builds and starts a pipeline, waits on pipe_cond and tears the
\* pipeline down; the pipeline's streaming thread calls the sink callback
\* _on_data_receive, which writes the received tensor to a file and signals
\* pipe_cond. Both work under the mutex pipe_lock.
\*
\* pipe.rpc and pipe.cpc are the positions of the runner and of the
\* callback, pipe.owner the holder of pipe_lock. pthread_mutex_lock fails
\* only on a mutex that is not usable (pipe.lock_ok = FALSE, for both
\* callers); ml_* and stdio calls succeed or fail. pthread_cond_wait may
\* return without a signal (a spurious wakeup).

PipeStep(p) == pipe' = p /\ UNCHANGED wvars /\ UNCHANGED call

\* pthread_mutex_unlock by thread `who`.
Unlock(p, who) == IF p.owner = who THEN "none" ELSE p.owner

\* The positions at which a thread is between its pthread_mutex_lock and
\* its pthread_mutex_unlock (pthread_cond_wait gives the lock up while the
\* runner is "waiting" or "woken").
RunnerSection ==
  {"construct", "register", "start", "wait", "stop", "unregister",
   "destroy", "unlock"}
CallbackSection ==
  {"get_data", "open", "write", "close", "signal", "unlock"}

\* ------------------------------------------------------ _run_nnpipeline
\* pthread_mutex_lock(&ad->pipe_lock); a failure is returned at once.
run_nnpipeline_lock ==
  /\ pipe.rpc = "lock"
  /\ IF ~pipe.lock_ok
     THEN PipeStep([pipe EXCEPT !.rpc = "done", !.status = "error",
                                !.rpath = "lock_fail"])
     ELSE /\ pipe.owner = "none"
          /\ PipeStep([pipe EXCEPT !.owner = "runner", !.rpc = "construct"])

\* ml_pipeline_construct; on failure destroy, unlock and return.
run_nnpipeline_construct ==
  /\ pipe.rpc = "construct"
  /\ \E ok \in BOOLEAN :
       PipeStep(IF ok
                THEN [pipe EXCEPT !.pipeline = "ready", !.rpc = "register",
                                  !.constructs = @ + 1]
                ELSE [pipe EXCEPT !.constructs = @ + 1, !.destroys = @ + 1,
                                  !.owner = Unlock(pipe, "runner"),
                                  !.status = "error", !.rpc = "done",
                                  !.rpath = "construct_fail"])

\* ml_pipeline_sink_register; on failure goto CLEAN.
run_nnpipeline_sink_register ==
  /\ pipe.rpc = "register"
  /\ \E ok \in BOOLEAN :
       PipeStep(IF ok
                THEN [pipe EXCEPT !.sink = "registered", !.rpc = "start"]
                ELSE [pipe EXCEPT !.status = "error", !.rpc = "unregister",
                                  !.rpath = "register_fail"])

\* ml_pipeline_start; on failure goto CLEAN.
run_nnpipeline_start ==
  /\ pipe.rpc = "start"
  /\ \E ok \in BOOLEAN :
       PipeStep(IF ok
                THEN [pipe EXCEPT !.pipeline = "playing", !.started = TRUE,
                                  !.rpc = "wait"]
                ELSE [pipe EXCEPT !.status = "error", !.rpc = "unregister",
                                  !.rpath = "start_fail"])

\* pthread_cond_wait, first half: the lock is released and the runner
\* blocks on pipe_cond, atomically.
run_nnpipeline_cond_wait ==
  /\ pipe.rpc = "wait"
  /\ PipeStep([pipe EXCEPT !.owner = Unlock(pipe, "runner"),
                           !.rpc = "waiting"])

\* pthread_cond_wait may wake up without pthread_cond_signal; the code
\* tests no predicate after the wait.
cond_wait_spurious_wakeup ==
  /\ pipe.rpc = "waiting"
  /\ PipeStep([pipe EXCEPT !.rpc = "woken", !.woken_by = "spurious"])

\* pthread_cond_wait, second half: the woken runner takes the lock again.
run_nnpipeline_cond_relock ==
  /\ pipe.rpc = "woken"
  /\ pipe.owner = "none"
  /\ PipeStep([pipe EXCEPT !.owner = "runner", !.rpc = "stop"])

\* ml_pipeline_stop; on failure goto CLEAN (which follows in either case).
run_nnpipeline_stop ==
  /\ pipe.rpc = "stop"
  /\ \E ok \in BOOLEAN :
       PipeStep(IF ok
                THEN [pipe EXCEPT !.pipeline = "stopped", !.status = "ok",
                                  !.rpc = "unregister", !.rpath = "success"]
                ELSE [pipe EXCEPT !.status = "error", !.rpc = "unregister",
                                  !.rpath = "stop_fail"])

\* CLEAN: ml_pipeline_sink_unregister(ad->pipe_sink)
run_nnpipeline_sink_unregister ==
  /\ pipe.rpc = "unregister"
  /\ PipeStep([pipe EXCEPT !.unregisters = @ + 1, !.rpc = "destroy"])

\* ml_pipeline_destroy(ad->pipeline); both handles are set to NULL.
run_nnpipeline_destroy ==
  /\ pipe.rpc = "destroy"
  /\ PipeStep([pipe EXCEPT !.destroys = @ + 1, !.sink = "null",
                           !.pipeline = "null", !.rpc = "unlock"])

\* pthread_mutex_unlock and return.
run_nnpipeline_unlock ==
  /\ pipe.rpc = "unlock"
  /\ PipeStep([pipe EXCEPT !.owner = Unlock(pipe, "runner"),
                           !.rpc = "done"])

\* ----------------------------------------------------- _on_data_receive
\* The streaming thread of a playing pipeline calls the registered sink
\* callback, one call at a time.
on_data_receive ==
  /\ pipe.pipeline = "playing"
  /\ pipe.sink = "registered"
  /\ pipe.cpc = "idle"
  /\ pipe.delivered < MaxCallbacks
  /\ PipeStep([pipe EXCEPT !.cpc = "lock", !.delivered = @ + 1,
                           !.cpath = "none"])

\* pthread_mutex_lock when it takes the lock without waiting for it.
on_data_receive_lock_noWait ==
  /\ pipe.cpc = "lock"
  /\ PipeStep([pipe EXCEPT !.cpc = "get_data"])

\* pthread_mutex_lock(&ad->pipe_lock); the result is not looked at.
on_data_receive_lock ==
  /\ pipe.cpc = "lock"
  /\ IF pipe.lock_ok
     THEN /\ pipe.owner = "none"
          /\ PipeStep([pipe EXCEPT !.owner = "callback", !.cpc = "get_data"])
     ELSE PipeStep([pipe EXCEPT !.cpc = "get_data"])

\* ml_tensors_data_get_tensor_data; on failure goto CLEAN.
on_data_receive_get_tensor_data ==
  /\ pipe.cpc = "get_data"
  /\ \E ok \in BOOLEAN :
       PipeStep(IF ok THEN [pipe EXCEPT !.cpc = "open"]
                ELSE [pipe EXCEPT !.cpc = "signal", !.cpath = "data_fail"])

\* fopen; on failure goto CLEAN.
on_data_receive_fopen ==
  /\ pipe.cpc = "open"
  /\ \E ok \in BOOLEAN :
       PipeStep(IF ok THEN [pipe EXCEPT !.cpc = "write"]
                ELSE [pipe EXCEPT !.cpc = "signal", !.cpath = "open_fail"])

\* fwrite of the data and of the label; errors are logged only.
on_data_receive_fwrite ==
  /\ pipe.cpc = "write"
  /\ PipeStep([pipe EXCEPT !.cpc = "close"])

\* fclose; CLEAN follows in either case.
on_data_receive_fclose ==
  /\ pipe.cpc = "close"
  /\ \E ok \in BOOLEAN :
       PipeStep([pipe EXCEPT !.cpc = "signal",
                             !.cpath = IF ok THEN "success"
                                       ELSE "close_fail"])

\* The callback's exit without the signal.
on_data_receive_cond_signal_none ==
  /\ pipe.cpc = "signal"
  /\ PipeStep([pipe EXCEPT !.cpc = "unlock"])

\* CLEAN: pthread_cond_signal wakes the runner if it waits.
on_data_receive_cond_signal ==
  /\ pipe.cpc = "signal"
  /\ PipeStep([pipe EXCEPT
                 !.cpc = "unlock", !.signals = @ + 1,
                 !.rpc = IF pipe.rpc = "waiting" THEN "woken" ELSE @,
                 !.woken_by = IF pipe.rpc = "waiting" THEN "signal" ELSE @])

\* pthread_mutex_unlock and return.
on_data_receive_unlock ==
  /\ pipe.cpc = "unlock"
  /\ PipeStep([pipe EXCEPT !.owner = Unlock(pipe, "callback"),
                           !.cpc = "idle", !.finished = @ + 1])

\* ------------------------------------------------ pipeline specification
InitPipe ==
  /\ weights = Blank.w
  /\ live = Blank.lv
  /\ tensors = Blank.t
  /\ bufs = Blank.b
  /\ last = NoCall
  /\ \E ok \in BOOLEAN : pipe = [NoPipe EXCEPT !.lock_ok = ok, !.rpc = "lock"]
  /\ call = NoParse

NextPipe ==
  \/ run_nnpipeline_lock
  \/ run_nnpipeline_construct
  \/ run_nnpipeline_sink_register
  \/ run_nnpipeline_start
  \/ run_nnpipeline_cond_wait
  \/ cond_wait_spurious_wakeup
  \/ run_nnpipeline_cond_relock
  \/ run_nnpipeline_stop
  \/ run_nnpipeline_sink_unregister
  \/ run_nnpipeline_destroy
  \/ run_nnpipeline_unlock
  \/ on_data_receive
  \/ on_data_receive_lock
  \/ on_data_receive_get_tensor_data
  \/ on_data_receive_fopen
  \/ on_data_receive_fwrite
  \/ on_data_receive_fclose
  \/ on_data_receive_cond_signal
  \/ on_data_receive_unlock

SpecPipe == InitPipe /\ [][NextPipe]_vars

\* Fair scheduling: a thread that can take a step takes one; a thread that
\* waits for pipe_lock gets it if it is free again and again. Neither a
\* delivery of the callback nor a spurious wakeup is ever owed.
FairPipe ==
  /\ WF_vars(run_nnpipeline_lock)
  /\ WF_vars(run_nnpipeline_construct)
  /\ WF_vars(run_nnpipeline_sink_register)
  /\ WF_vars(run_nnpipeline_start)
  /\ WF_vars(run_nnpipeline_cond_wait)
  /\ SF_vars(run_nnpipeline_cond_relock)
  /\ WF_vars(run_nnpipeline_stop)
  /\ WF_vars(run_nnpipeline_sink_unregister)
  /\ WF_vars(run_nnpipeline_destroy)
  /\ WF_vars(run_nnpipeline_unlock)
  /\ SF_vars(on_data_receive_lock)
  /\ WF_vars(on_data_receive_get_tensor_data)
  /\ WF_vars(on_data_receive_fopen)
  /\ WF_vars(on_data_receive_fwrite)
  /\ WF_vars(on_data_receive_fclose)
  /\ WF_vars(on_data_receive_cond_signal)
  /\ WF_vars(on_data_receive_unlock)

SpecPipeFair == InitPipe /\ [][NextPipe]_vars /\ FairPipe

\* ------------------------------------------------------------------ C18
\* C18: in every interleaving the runner and the callback are never both
\* between their pthread_mutex_lock and pthread_mutex_unlock, a thread in
\* its section holds pipe_lock, and a function that has returned does not
\* hold pipe_lock, whichever path it took (lock-acquire, construct,
\* sink-register, start or stop failure or success for the runner;
\* tensor-data, file-open or close failure or success for the callback).
C18_MutualExclusion ==
  /\ ~(pipe.rpc \in RunnerSection /\ pipe.cpc \in CallbackSection)
  /\ pipe.rpc \in RunnerSection => pipe.owner = "runner"
  /\ pipe.cpc \in CallbackSection => pipe.owner = "callback"
  /\ pipe.rpc = "done" => pipe.owner # "runner"
  /\ pipe.cpc = "idle" => pipe.owner # "callback"

C18_Witness ==
  /\ pipe.rpc = "done"
  /\ pipe.rpath = "stop_fail"
  /\ pipe.cpc = "idle"
  /\ pipe.cpath = "close_fail"
  /\ pipe.finished = 2
  /\ pipe.owner = "none"

\* ------------------------------------------------------------------ C19
\* C19: once the pipeline is constructed, the sink registered, the pipeline
\* started and the callback delivered, the runner eventually returns (under
\* fair scheduling). The signal is not lost: the callback takes pipe_lock,
\* and so signals, only after the runner has released the lock inside
\* pthread_cond_wait.
C19_RunnerReturns ==
  /\ (pipe.started /\ pipe.delivered >= 1) ~> (pipe.rpc = "done")
  /\ [][(pipe.cpc = "lock" /\ pipe'.cpc # "lock") \/ pipe'.signals # pipe.signals
          => pipe.rpc \notin {"lock", "construct", "register", "start",
                              "wait"}]_vars

C19_Witness ==
  /\ pipe.rpc = "done"
  /\ pipe.started
  /\ pipe.delivered = 1
  /\ pipe.signals = 1
  /\ pipe.woken_by = "signal"
  /\ pipe.rpath = "success"

\* ------------------------------------------------------------------ C20
\* C20: on a run in which the pipeline started, the runner calls
\* ml_pipeline_stop and ml_pipeline_destroy only after a callback has
\* signalled pipe_cond, and never while a callback is between its lock and
\* its unlock.
C20_StopAfterCallback ==
  [][(pipe.started /\ pipe.rpc \in {"stop", "destroy"}
        /\ pipe'.rpc # pipe.rpc) =>
       /\ pipe.signals >= 1
       /\ pipe.cpc \notin CallbackSection]_vars

\* ------------------------------------------------------------------ C21
\* C21: in every execution of the runner, ml_pipeline_sink_unregister is
\* called only after ml_pipeline_sink_register succeeded; when the runner
\* has returned on a path that reached ml_pipeline_construct,
\* ml_pipeline_destroy was called exactly once; and after every return
\* through CLEAN ad->pipeline and ad->pipe_sink are NULL.
C21_TeardownOrder ==
  /\ [][pipe'.unregisters # pipe.unregisters =>
          pipe.sink = "registered"]_vars
  /\ []((pipe.rpc = "done" /\ pipe.constructs >= 1) => pipe.destroys = 1)
  /\ []((pipe.rpc = "done"
           /\ pipe.rpath \notin {"lock_fail", "construct_fail"}) =>
          (pipe.pipeline = "null" /\ pipe.sink = "null"))

\* ==================================================== data_parse_route
\* int data_parse_route(const char *source, char **route, char **data)
\* (data.c). A C string is a sequence of characters that ends at the first
\* NUL; dst is the buffer strdup(source) returned (strdup is taken to
\* succeed), and a char * into it is an index of the buffer, 0 standing for
\* NULL. call.route and call.data are what was stored through the two
\* pointers (route_set, data_set: whether anything was stored).
sep == ":"
NUL == "NUL"
Chars == {"a", "b", sep}
Strings == UNION {[1 .. n -> Chars] : n \in 0 .. MaxLen}

\* The C string that starts at index p of buffer buf.
RECURSIVE CStr(_, _)
CStr(buf, p) ==
  IF p > Len(buf) \/ buf[p] = NUL THEN <<>>
  ELSE <<buf[p]>> \o CStr(buf, p + 1)

strdup(s) == s \o <<NUL>>

\* dst = strdup(source); the NULL test of route and data; *route = dst.
data_parse_route_enter ==
  /\ call.pc = "start"
  /\ call' =
       IF call.route_null \/ call.data_null
       THEN [call EXCEPT !.dst = <<>>, !.pc = "done",
                         !.ret = "APP_ERROR_INVALID_PARAMETER"]
       ELSE [call EXCEPT !.dst = strdup(call.source), !.route_set = TRUE,
                         !.route = 1, !.i = 1, !.pc = "loop"]
  /\ UNCHANGED wvars
  /\ UNCHANGED pipe

\* The loop that goes on after it found a separator.
data_parse_route_scan_noBreak ==
  /\ call.pc = "loop"
  /\ call' =
       IF call.dst[call.i] = NUL THEN [call EXCEPT !.pc = "after"]
       ELSE IF call.dst[call.i] = sep
       THEN [call EXCEPT !.dst[call.i] = NUL, !.data_set = TRUE,
                         !.data = call.i + 1, !.find_data = TRUE,
                         !.i = call.i + 1]
       ELSE [call EXCEPT !.i = call.i + 1]
  /\ UNCHANGED wvars
  /\ UNCHANGED pipe

\* One test of the loop condition and one pass of the loop body.
data_parse_route_scan ==
  /\ call.pc = "loop"
  /\ call' =
       IF call.dst[call.i] = NUL THEN [call EXCEPT !.pc = "after"]
       ELSE IF call.dst[call.i] = sep
       THEN [call EXCEPT !.dst[call.i] = NUL, !.data_set = TRUE,
                         !.data = call.i + 1, !.find_data = TRUE,
                         !.pc = "after"]
       ELSE [call EXCEPT !.i = call.i + 1]
  /\ UNCHANGED wvars
  /\ UNCHANGED pipe

\* if (!find_data) *data = NULL; return APP_ERROR_NONE;
data_parse_route_return ==
  /\ call.pc = "after"
  /\ call' =
       IF call.find_data
       THEN [call EXCEPT !.pc = "done", !.ret = "APP_ERROR_NONE"]
       ELSE [call EXCEPT !.data_set = TRUE, !.data = 0, !.pc = "done",
                         !.ret = "APP_ERROR_NONE"]
  /\ UNCHANGED wvars
  /\ UNCHANGED pipe

InitParse ==
  /\ weights = Blank.w
  /\ live = Blank.lv
  /\ tensors = Blank.t
  /\ bufs = Blank.b
  /\ last = NoCall
  /\ pipe = NoPipe
  /\ \E s \in Strings, rn \in BOOLEAN, dn \in BOOLEAN :
       call = [NoParse EXCEPT !.pc = "start", !.source = s,
                              !.route_null = rn, !.data_null = dn]

NextParse ==
  \/ data_parse_route_enter
  \/ data_parse_route_scan
  \/ data_parse_route_return

SpecParse == InitParse /\ [][NextParse]_vars

\* ------------------------------------------------------------------ C22
\* The strings the caller finds in *route and *data after the call.
C22_Route == CStr(call.dst, call.route)
C22_Data == CStr(call.dst, call.data)
C22_HasSep(s) == \E k \in 1 .. Len(s) : s[k] = sep

\* C22: with route and data not NULL, data_parse_route returns
\* APP_ERROR_NONE and splits at the first ':' only: route holds no ':'; if
\* source holds a ':' then route, ':' and data (which may hold further ':')
\* make up source; otherwise route equals source and data is NULL. With
\* route or data NULL it returns APP_ERROR_INVALID_PARAMETER and stores
\* nothing through either pointer.
C22_ParseRoute ==
  call.pc = "done" =>
    IF call.route_null \/ call.data_null
    THEN /\ call.ret = "APP_ERROR_INVALID_PARAMETER"
         /\ ~call.route_set
         /\ ~call.data_set
    ELSE /\ call.ret = "APP_ERROR_NONE"
         /\ call.route_set
         /\ call.data_set
         /\ call.route # 0
         /\ ~C22_HasSep(C22_Route)
         /\ IF C22_HasSep(call.source)
            THEN /\ call.data # 0
                 /\ C22_Route \o <<sep>> \o C22_Data = call.source
            ELSE /\ C22_Route = call.source
                 /\ call.data = 0

C22_Witness ==
  /\ call.pc = "done"
  /\ call.ret = "APP_ERROR_NONE"
  /\ call.source = <<"a", sep, sep>>
  /\ C22_Route = <<"a">>
  /\ C22_Data = <<sep>>

====
